---- MODULE Spec2Model ----
(***************************************************************************)
(* Romp, the simple Rust STOMP server: the frame model and codec           *)
(* (src/src/stomp/mod.rs, src/src/stomp/parse.rs), the connection session  *)
(* (src/src/client/mod.rs) and the listener and dispatcher loop            *)
(* (src/src/main.rs).                                                      *)
(*                                                                         *)
(* Strings are sequences of bytes (integers 0..255).  A byte source is a   *)
(* sequence of read results: a byte, or IoErr for a read that returns      *)
(* Err(_) (a timeout or any other transport error); reading past the end   *)
(* of the sequence is end of stream (the peer closed its write half).      *)
(***************************************************************************)
EXTENDS Integers, Sequences, FiniteSets, TLC

VARIABLES
    accepted,   \* connections the listener has accepted (tcp_listen)
    reg_chan,   \* mpsc channel of Client values, listener -> main
    clients,    \* main's Vec<Client>: the dispatcher registry
    lpc,        \* position of tcp_listen: 0 = in listener.incoming(), c = about to tx.send(c)
    dpc,        \* position of main's loop: 0 = try_recv a new client, i = poll clients[i]
    req_chan,   \* per connection: server_tx -> server_rx (session -> dispatcher)
    resp_chan,  \* per connection: client_tx -> client_rx (dispatcher -> session)
    spc,        \* per connection: position of handle_client: "none" (not spawned), "handshake",
                \* "loop", "recv" (blocked in rx.recv), "done" (returned), "panicked"
    rest,       \* per connection: bytes received and not yet read by the session
    at_eof,     \* per connection: the session has read end of stream
    written,    \* per connection: frames written to the socket, in order
    shut,       \* per connection: stream.shutdown(Shutdown::Both) was called
    reads,      \* per connection: the results of the parse_frame calls, in order
    sent,       \* per connection: frames the session sent on tx, in order
    got,        \* per connection: frames the dispatcher took from c.rx, in order
    recvd,      \* per connection: frames the session took from rx, in order
    cpc,        \* codec harness: position
    cArg,       \* codec harness: what the input was built from (a frame, a header line)
    cIn,        \* codec harness: the byte source under test
    cOut        \* codec harness: the result of the function under test

vars == <<accepted, lpc, reg_chan, clients, dpc, req_chan, resp_chan, spc, rest, at_eof,
          written, shut, reads, sent, got, recvd, cpc, cArg, cIn, cOut>>

sysVars == <<accepted, lpc, reg_chan, clients, dpc, req_chan, resp_chan, spc, rest, at_eof,
             written, shut, reads, sent, got, recvd>>

codecVars == <<cpc, cArg, cIn, cOut>>

(***************************************************************************)
(* Bytes the parser matches on.                                            *)
(***************************************************************************)
NUL == 0
LF == 10
CR == 13
COLON == 58
ESCAPE_CHAR == 92
\* A read of the socket that returns Err(_).
IoErr == -1

(***************************************************************************)
(* Wire tokens and messages, as bytes.                                     *)
(***************************************************************************)
\* "SEND"
T_SEND == <<83, 69, 78, 68>>
\* "SUBSCRIBE"
T_SUBSCRIBE == <<83, 85, 66, 83, 67, 82, 73, 66, 69>>
\* "UNSUBSCRIBE"
T_UNSUBSCRIBE == <<85, 78, 83, 85, 66, 83, 67, 82, 73, 66, 69>>
\* "BEGIN"
T_BEGIN == <<66, 69, 71, 73, 78>>
\* "COMMIT"
T_COMMIT == <<67, 79, 77, 77, 73, 84>>
\* "ABORT"
T_ABORT == <<65, 66, 79, 82, 84>>
\* "ACK"
T_ACK == <<65, 67, 75>>
\* "NACK"
T_NACK == <<78, 65, 67, 75>>
\* "DISCONNECT"
T_DISCONNECT == <<68, 73, 83, 67, 79, 78, 78, 69, 67, 84>>
\* "STOMP"
T_STOMP == <<83, 84, 79, 77, 80>>
\* "CONNECT"
T_CONNECT == <<67, 79, 78, 78, 69, 67, 84>>
\* "CONNECTED"
T_CONNECTED == <<67, 79, 78, 78, 69, 67, 84, 69, 68>>
\* "MESSAGE"
T_MESSAGE == <<77, 69, 83, 83, 65, 71, 69>>
\* "RECEIPT"
T_RECEIPT == <<82, 69, 67, 69, 73, 80, 84>>
\* "ERROR"
T_ERROR == <<69, 82, 82, 79, 82>>
\* "Invalid command"
E_INVALID_COMMAND == <<73, 110, 118, 97, 108, 105, 100, 32, 99, 111, 109, 109, 97, 110, 100>>
\* "Failed to parse header."
E_PARSE_HEADER == <<70, 97, 105, 108, 101, 100, 32, 116, 111, 32, 112, 97, 114, 115, 101, 32, 104, 101, 97, 100, 101, 114, 46>>
\* "Missing line breaks after header."
E_MISSING_BREAKS == <<77, 105, 115, 115, 105, 110, 103, 32, 108, 105, 110, 101, 32, 98, 114, 101, 97, 107, 115, 32, 97, 102, 116, 101, 114, 32, 104, 101, 97, 100, 101, 114, 46>>
\* "Error decoding body."
E_DECODE_BODY == <<69, 114, 114, 111, 114, 32, 100, 101, 99, 111, 100, 105, 110, 103, 32, 98, 111, 100, 121, 46>>
\* "This type of frame may not have a body."
E_NO_BODY == <<84, 104, 105, 115, 32, 116, 121, 112, 101, 32, 111, 102, 32, 102, 114, 97, 109, 101, 32, 109, 97, 121, 32, 110, 111, 116, 32, 104, 97, 118, 101, 32, 97, 32, 98, 111, 100, 121, 46>>
\* "Invalid escape sequence"
E_ESCAPE == <<73, 110, 118, 97, 108, 105, 100, 32, 101, 115, 99, 97, 112, 101, 32, 115, 101, 113, 117, 101, 110, 99, 101>>
\* "Invalid command; expected STOMP or CONNECT."
M_EXPECTED_STOMP == <<73, 110, 118, 97, 108, 105, 100, 32, 99, 111, 109, 109, 97, 110, 100, 59, 32, 101, 120, 112, 101, 99, 116, 101, 100, 32, 83, 84, 79, 77, 80, 32, 111, 114, 32, 67, 79, 78, 78, 69, 67, 84, 46>>
\* "Invalid frame; expected 'accept-version' header."
M_EXPECTED_VERSION == <<73, 110, 118, 97, 108, 105, 100, 32, 102, 114, 97, 109, 101, 59, 32, 101, 120, 112, 101, 99, 116, 101, 100, 32, 39, 97, 99, 99, 101, 112, 116, 45, 118, 101, 114, 115, 105, 111, 110, 39, 32, 104, 101, 97, 100, 101, 114, 46>>
\* "Invalid frame; expected 'host' header."
M_EXPECTED_HOST == <<73, 110, 118, 97, 108, 105, 100, 32, 102, 114, 97, 109, 101, 59, 32, 101, 120, 112, 101, 99, 116, 101, 100, 32, 39, 104, 111, 115, 116, 39, 32, 104, 101, 97, 100, 101, 114, 46>>
\* "Invalid protocol version."
M_BAD_VERSION == <<73, 110, 118, 97, 108, 105, 100, 32, 112, 114, 111, 116, 111, 99, 111, 108, 32, 118, 101, 114, 115, 105, 111, 110, 46>>
\* "accept-version"
K_ACCEPT_VERSION == <<97, 99, 99, 101, 112, 116, 45, 118, 101, 114, 115, 105, 111, 110>>
\* "host"
K_HOST == <<104, 111, 115, 116>>
\* "version"
K_VERSION == <<118, 101, 114, 115, 105, 111, 110>>
\* "server"
K_SERVER == <<115, 101, 114, 118, 101, 114>>
\* "content-length"
K_CONTENT_LENGTH == <<99, 111, 110, 116, 101, 110, 116, 45, 108, 101, 110, 103, 116, 104>>
\* "1.2", the literal do_connect writes in the version header
V_1_2 == <<49, 46, 50>>
\* The supported protocol version do_connect compares accept-version with: "1.2"
PROTO_VERS == <<49, 46, 50>>
\* The server identification string of the CONNECTED frame: "romp"
SERVER_STR == <<114, 111, 109, 112>>

(***************************************************************************)
(* StompCommand                                                            *)
(***************************************************************************)
StompCommand ==
    {"Stomp", "Send", "Subscribe", "Unsubscribe", "Ack", "Nack", "Begin",
     "Commit", "Abort", "Disconnect", "Connected", "Message", "Receipt", "Error"}

\* Option<T>: None is <<>>, Some(x) is <<x>>.
None == <<>>
Some(x) == <<x>>

\* str::from_utf8 succeeds.  Exact for ASCII bytes and for bytes that occur in
\* no UTF-8 text (0xFF), which are the bytes the byte sources here are made of.
IsUtf8(bytes) == \A i \in 1..Len(bytes) : bytes[i] >= 0 /\ bytes[i] < 128

from_string(string) ==
    CASE string = T_SEND -> Some("Send")
      [] string = T_SUBSCRIBE -> Some("Subscribe")
      [] string = T_UNSUBSCRIBE -> Some("Unsubscribe")
      [] string = T_BEGIN -> Some("Begin")
      [] string = T_COMMIT -> Some("Commit")
      [] string = T_ABORT -> Some("Abort")
      [] string = T_ACK -> Some("Ack")
      [] string = T_NACK -> Some("Nack")
      [] string = T_DISCONNECT -> Some("Disconnect")
      [] string = T_STOMP -> Some("Stomp")
      [] string = T_CONNECT -> Some("Stomp")
      [] string = T_CONNECTED -> Some("Connected")
      [] string = T_MESSAGE -> Some("Message")
      [] string = T_RECEIPT -> Some("Receipt")
      [] string = T_ERROR -> Some("Error")
      [] OTHER -> None

\* to_string with CONNECT as the token of Stomp.
Command_to_string_Connect(c) ==
    CASE c = "Send" -> T_SEND
      [] c = "Subscribe" -> T_SUBSCRIBE
      [] c = "Unsubscribe" -> T_UNSUBSCRIBE
      [] c = "Begin" -> T_BEGIN
      [] c = "Commit" -> T_COMMIT
      [] c = "Abort" -> T_ABORT
      [] c = "Ack" -> T_ACK
      [] c = "Nack" -> T_NACK
      [] c = "Disconnect" -> T_DISCONNECT
      [] c = "Stomp" -> T_CONNECT
      [] c = "Connected" -> T_CONNECTED
      [] c = "Message" -> T_MESSAGE
      [] c = "Receipt" -> T_RECEIPT
      [] c = "Error" -> T_ERROR

Command_to_string(c) ==
    CASE c = "Send" -> T_SEND
      [] c = "Subscribe" -> T_SUBSCRIBE
      [] c = "Unsubscribe" -> T_UNSUBSCRIBE
      [] c = "Begin" -> T_BEGIN
      [] c = "Commit" -> T_COMMIT
      [] c = "Abort" -> T_ABORT
      [] c = "Ack" -> T_ACK
      [] c = "Nack" -> T_NACK
      [] c = "Disconnect" -> T_DISCONNECT
      [] c = "Stomp" -> T_STOMP
      [] c = "Connected" -> T_CONNECTED
      [] c = "Message" -> T_MESSAGE
      [] c = "Receipt" -> T_RECEIPT
      [] c = "Error" -> T_ERROR

\* from_bytes giving the command of Frame::new for a token that is no command.
from_bytes_OrDefault(bytes) ==
    IF IsUtf8(bytes) /\ from_string(bytes) # None THEN from_string(bytes)
    ELSE Some("Error")

\* Bytes that are not UTF-8 become "INVALID", which is no command.
from_bytes(bytes) == IF IsUtf8(bytes) THEN from_string(bytes) ELSE None

(***************************************************************************)
(* Header: an ordered store of (key, value) pairs.                         *)
(***************************************************************************)
Header_new == <<>>

\* set replacing the value of a key the store already has.
Header_set_Overwrite(store, key, value) ==
    IF \E i \in 1..Len(store) : store[i][1] = key
    THEN [i \in 1..Len(store) |->
            IF store[i][1] = key THEN <<key, value>> ELSE store[i]]
    ELSE Append(store, <<key, value>>)

Header_set(store, key, value) == Append(store, <<key, value>>)

RECURSIVE Header_get(_, _)
Header_get(store, key) ==
    IF store = <<>> THEN None
    ELSE IF Head(store)[1] = key THEN Some(Head(store)[2])
    ELSE Header_get(Tail(store), key)

RECURSIVE contains_key(_, _)
contains_key(store, key) ==
    IF store = <<>> THEN FALSE
    ELSE IF Head(store)[1] = key THEN TRUE
    ELSE contains_key(Tail(store), key)

RECURSIVE Header_to_string(_)
Header_to_string(store) ==
    IF store = <<>> THEN <<>>
    ELSE Head(store)[1] \o <<COLON>> \o Head(store)[2] \o <<CR, LF>>
         \o Header_to_string(Tail(store))

(***************************************************************************)
(* Frame                                                                   *)
(***************************************************************************)
Frame_new == [command |-> "Error", header |-> Header_new, body |-> <<>>]

from_command(c) == [command |-> c, header |-> Header_new, body |-> <<>>]

\* usize::to_string: the decimal digits of n, as bytes.
RECURSIVE usize_to_string(_)
usize_to_string(n) ==
    IF n < 10 THEN <<48 + n>>
    ELSE Append(usize_to_string(n \div 10), 48 + (n % 10))

\* Sets command and body and adds the content-length header.
with_body(c, b) ==
    [command |-> c,
     header |-> Header_set(Header_new, K_CONTENT_LENGTH, usize_to_string(Len(b))),
     body |-> b]

Frame_to_string(f) ==
    Command_to_string(f.command) \o <<CR, LF>> \o Header_to_string(f.header)
        \o <<CR, LF, CR, LF>> \o f.body \o <<NUL>>

to_bytes(f) == Frame_to_string(f)

(***************************************************************************)
(* parse_frame: three loops over the bytes of the stream, each reading     *)
(* from where the one before stopped.                                      *)
(***************************************************************************)
unescape(b) ==
    CASE b = 114 -> Some(CR)
      [] b = 110 -> Some(LF)
      [] b = 99 -> Some(COLON)
      [] b = 92 -> Some(92)
      [] OTHER -> None

\* The command loop from position i with cmd_buf = buf.  pos is the next unread
\* position; ioerr: the loop ended on Err(_); eof: it ended on end of stream.
RECURSIVE CommandLoop(_, _, _)
CommandLoop(s, i, buf) ==
    CASE i > Len(s) -> [buf |-> buf, pos |-> i, ioerr |-> FALSE, eof |-> TRUE]
      [] i <= Len(s) /\ s[i] = IoErr ->
            [buf |-> buf, pos |-> i + 1, ioerr |-> TRUE, eof |-> FALSE]
      [] i <= Len(s) /\ s[i] = LF /\ Len(buf) > 0 ->
            [buf |-> buf, pos |-> i + 1, ioerr |-> FALSE, eof |-> FALSE]
      [] i <= Len(s) /\ s[i] = LF /\ Len(buf) = 0 -> CommandLoop(s, i + 1, buf)
      [] i <= Len(s) /\ s[i] = CR -> CommandLoop(s, i + 1, buf)
      [] OTHER -> CommandLoop(s, i + 1, Append(buf, s[i]))

\* The locals of the header loop at its start.
HeaderStart ==
    [eol_seen |-> 1, key_buf |-> <<>>, value_buf |-> <<>>, found_colon |-> FALSE,
     escape |-> FALSE, header |-> Header_new]

\* The byte pushed to the value buffer after a colon, to the key buffer before.
PushByte(st, b) ==
    IF st.found_colon
    THEN [st EXCEPT !.value_buf = Append(@, b)]
    ELSE [st EXCEPT !.key_buf = Append(@, b)]

\* The arm of the header loop for a byte other than LF, CR, ':' and the escape
\* character.  <<>> when unescape fails.
OtherByte(st, b) ==
    LET st0 == [st EXCEPT !.eol_seen = 0]
    IN  IF st0.escape
        THEN IF unescape(b) = None THEN None
             ELSE Some([PushByte(st0, unescape(b)[1]) EXCEPT !.escape = FALSE])
        ELSE Some(PushByte(st0, b))

\* The result of the header loop.  kind: "end" (the loop was left by break or by
\* the end of the byte iterator), "err" (return Err), "panic" (unwrap of
\* String::from_utf8 on a key or value that is not UTF-8).
HeaderResult(kind, st, err, pos, ioerr, eof) ==
    [kind |-> kind, st |-> st, err |-> err, pos |-> pos, ioerr |-> ioerr, eof |-> eof]

\* The locals after the arm for LF has counted the line break, and after it
\* has cleared the buffers.
CountedEol(st) == [st EXCEPT !.eol_seen = @ + 1]

ClearedLine(st) ==
    [st EXCEPT !.key_buf = <<>>, !.value_buf = <<>>, !.found_colon = FALSE]

\* The header loop from position i with the locals st.
RECURSIVE HeaderLoop(_, _, _)
HeaderLoop(s, i, st) ==
    CASE i > Len(s) -> HeaderResult("end", st, <<>>, i, FALSE, TRUE)
      [] i <= Len(s) /\ s[i] = IoErr -> HeaderResult("end", st, <<>>, i + 1, TRUE, FALSE)
      [] i <= Len(s) /\ s[i] = LF /\ st.eol_seen + 1 = 2 ->
            HeaderResult("end", CountedEol(st), <<>>, i + 1, FALSE, FALSE)
      [] i <= Len(s) /\ s[i] = LF /\ st.eol_seen + 1 # 2 /\ Len(st.key_buf) = 0 ->
            HeaderLoop(s, i + 1, ClearedLine(CountedEol(st)))
      [] i <= Len(s) /\ s[i] = LF /\ st.eol_seen + 1 # 2 /\ Len(st.key_buf) > 0
            /\ ~st.found_colon ->
            HeaderResult("err", CountedEol(st), E_PARSE_HEADER, i + 1, FALSE, FALSE)
      [] i <= Len(s) /\ s[i] = LF /\ st.eol_seen + 1 # 2 /\ Len(st.key_buf) > 0
            /\ st.found_colon /\ ~(IsUtf8(st.key_buf) /\ IsUtf8(st.value_buf)) ->
            HeaderResult("panic", CountedEol(st), <<>>, i + 1, FALSE, FALSE)
      [] i <= Len(s) /\ s[i] = LF /\ st.eol_seen + 1 # 2 /\ Len(st.key_buf) > 0
            /\ st.found_colon /\ IsUtf8(st.key_buf) /\ IsUtf8(st.value_buf) ->
            HeaderLoop(s, i + 1,
                [ClearedLine(CountedEol(st)) EXCEPT
                    !.header = Header_set(@, st.key_buf, st.value_buf)])
      [] i <= Len(s) /\ s[i] = CR -> HeaderLoop(s, i + 1, st)
      [] i <= Len(s) /\ s[i] = COLON ->
            HeaderLoop(s, i + 1, [st EXCEPT !.found_colon = TRUE])
      [] i <= Len(s) /\ s[i] = ESCAPE_CHAR ->
            HeaderLoop(s, i + 1, [st EXCEPT !.escape = TRUE])
      [] i <= Len(s) /\ s[i] \notin {IoErr, LF, CR, COLON, ESCAPE_CHAR}
            /\ OtherByte(st, s[i]) = None ->
            HeaderResult("err", st, E_ESCAPE, i + 1, FALSE, FALSE)
      [] OTHER -> HeaderLoop(s, i + 1, OtherByte(st, s[i])[1])

\* The body loop leaving the NUL that ends the body in the stream.
RECURSIVE BodyLoop_NulUnread(_, _, _)
BodyLoop_NulUnread(s, i, buf) ==
    CASE i > Len(s) -> [buf |-> buf, pos |-> i, ioerr |-> FALSE, eof |-> TRUE]
      [] i <= Len(s) /\ s[i] = IoErr ->
            [buf |-> buf, pos |-> i + 1, ioerr |-> TRUE, eof |-> FALSE]
      [] i <= Len(s) /\ s[i] = NUL ->
            [buf |-> buf, pos |-> i, ioerr |-> FALSE, eof |-> FALSE]
      [] OTHER -> BodyLoop_NulUnread(s, i + 1, Append(buf, s[i]))

\* The body loop from position i with body_buf = buf.
RECURSIVE BodyLoop(_, _, _)
BodyLoop(s, i, buf) ==
    CASE i > Len(s) -> [buf |-> buf, pos |-> i, ioerr |-> FALSE, eof |-> TRUE]
      [] i <= Len(s) /\ s[i] = IoErr ->
            [buf |-> buf, pos |-> i + 1, ioerr |-> TRUE, eof |-> FALSE]
      [] i <= Len(s) /\ s[i] = NUL ->
            [buf |-> buf, pos |-> i + 1, ioerr |-> FALSE, eof |-> FALSE]
      [] OTHER -> BodyLoop(s, i + 1, Append(buf, s[i]))

\* The body check with MESSAGE left out of the commands that may have a body.
BodyAllowed_NoMessage(command, body) ==
    Len(body) > 0 => command \in {"Send", "Error"}

\* Only SEND, MESSAGE and ERROR frames may have a body.
BodyAllowed(command, body) ==
    Len(body) > 0 => command \in {"Send", "Message", "Error"}

\* A result of parse_frame.  kind: "ok" (Ok(frame)), "err" (Err(err)), "panic".
\* pos: the next unread position of the stream.  ioerr: the phases whose loop
\* ended on Err(_).  eof: a loop ended on end of stream.
ParseResult(kind, frame, err, pos, ioerr, eof) ==
    [kind |-> kind, frame |-> frame, err |-> err, pos |-> pos, ioerr |-> ioerr,
     eof |-> eof]

\* The body phase reading as many bytes as a one-digit content-length header
\* says, where there is one.
ParseBody_ContentLength(s, command, h, ioerr0) ==
    LET given == Header_get(h.st.header, K_CONTENT_LENGTH)
        n == IF given # None /\ Len(given[1]) = 1 THEN given[1][1] - 48 ELSE -1
        last == IF h.pos + n - 1 <= Len(s) THEN h.pos + n - 1 ELSE Len(s)
        b == IF n >= 0
             THEN [buf |-> SubSeq(s, h.pos, last), pos |-> last + 1, ioerr |-> FALSE,
                   eof |-> last = Len(s)]
             ELSE BodyLoop(s, h.pos, <<>>)
        frame == [command |-> command, header |-> h.st.header, body |-> b.buf]
    IN  IF ~IsUtf8(b.buf)
        THEN ParseResult("err", Frame_new, E_DECODE_BODY, b.pos, ioerr0, h.eof \/ b.eof)
        ELSE IF ~BodyAllowed(command, b.buf)
        THEN ParseResult("err", Frame_new, E_NO_BODY, b.pos, ioerr0, h.eof \/ b.eof)
        ELSE ParseResult("ok", frame, <<>>, b.pos, ioerr0, h.eof \/ b.eof)

ParseBody(s, command, h, ioerr0) ==
    LET b == BodyLoop(s, h.pos, <<>>)
        ioerr == ioerr0 \cup (IF b.ioerr THEN {"body"} ELSE {})
        frame == [command |-> command, header |-> h.st.header, body |-> b.buf]
    IN  IF ~IsUtf8(b.buf)
        THEN ParseResult("err", Frame_new, E_DECODE_BODY, b.pos, ioerr, h.eof \/ b.eof)
        ELSE IF ~BodyAllowed(command, b.buf)
        THEN ParseResult("err", Frame_new, E_NO_BODY, b.pos, ioerr, h.eof \/ b.eof)
        ELSE ParseResult("ok", frame, <<>>, b.pos, ioerr, h.eof \/ b.eof)

ParseHeader(s, command, c) ==
    LET h == HeaderLoop(s, c.pos, HeaderStart)
        ioerr == (IF c.ioerr THEN {"command"} ELSE {})
                    \cup (IF h.ioerr THEN {"header"} ELSE {})
    IN  IF h.kind = "err"
        THEN ParseResult("err", Frame_new, h.err, h.pos, ioerr, c.eof \/ h.eof)
        ELSE IF h.kind = "panic"
        THEN ParseResult("panic", Frame_new, <<>>, h.pos, ioerr, c.eof \/ h.eof)
        ELSE IF h.st.eol_seen # 2
        THEN ParseResult("err", Frame_new, E_MISSING_BREAKS, h.pos, ioerr, c.eof \/ h.eof)
        ELSE ParseBody(s, command, [h EXCEPT !.eof = c.eof \/ h.eof], ioerr)

\* parse_frame on the byte source s, read from its first position.
parse_frame(s) ==
    LET c == CommandLoop(s, 1, <<>>)
        command == from_bytes(c.buf)
    IN  IF command = None
        THEN ParseResult("err", Frame_new, E_INVALID_COMMAND, c.pos,
                         IF c.ioerr THEN {"command"} ELSE {}, c.eof)
        ELSE ParseHeader(s, command[1], c)

(***************************************************************************)
(* do_connect: the answer to the first frame of a connection.              *)
(***************************************************************************)
\* do_connect with the host check made before the accept-version check.
do_connect_HostFirst(r) ==
    IF r.command # "Stomp"
    THEN with_body("Error", M_EXPECTED_STOMP)
    ELSE IF ~contains_key(r.header, K_HOST)
    THEN with_body("Error", M_EXPECTED_HOST)
    ELSE IF ~contains_key(r.header, K_ACCEPT_VERSION)
    THEN with_body("Error", M_EXPECTED_VERSION)
    ELSE IF Header_get(r.header, K_ACCEPT_VERSION)[1] # PROTO_VERS
    THEN with_body("Error", M_BAD_VERSION)
    ELSE [from_command("Connected") EXCEPT
            !.header = Header_set(Header_set(@, K_VERSION, V_1_2), K_SERVER, SERVER_STR)]

do_connect(r) ==
    IF r.command # "Stomp"
    THEN with_body("Error", M_EXPECTED_STOMP)
    ELSE IF ~contains_key(r.header, K_ACCEPT_VERSION)
    THEN with_body("Error", M_EXPECTED_VERSION)
    ELSE IF ~contains_key(r.header, K_HOST)
    THEN with_body("Error", M_EXPECTED_HOST)
    ELSE IF Header_get(r.header, K_ACCEPT_VERSION)[1] # PROTO_VERS
    THEN with_body("Error", M_BAD_VERSION)
    ELSE [from_command("Connected") EXCEPT
            !.header = Header_set(Header_set(@, K_VERSION, V_1_2), K_SERVER, SERVER_STR)]

(***************************************************************************)
(* Bounds and inputs of the system.                                        *)
(***************************************************************************)
\* Connections the listener accepts.
MaxConns == 2

Conns == 1..MaxConns

\* "STOMP\naccept-version:1.2\nhost:h\n\n\0": a connect request do_connect accepts.
In_Connect ==
    T_STOMP \o <<LF>> \o K_ACCEPT_VERSION \o <<COLON>> \o V_1_2 \o <<LF>>
        \o K_HOST \o <<COLON, 104, LF, LF, NUL>>
\* "SEND\n\na\0": a well-formed frame that is no connect request.
In_Send == T_SEND \o <<LF, LF, 97, NUL>>
\* "NOPE\n": no command.
In_Nope == <<78, 79, 80, 69, LF>>
\* "SEND\n\na" and then a read that times out.
In_Timeout == T_SEND \o <<LF, LF, 97, IoErr>>
\* "SEND\n", a header line whose key is the byte 200, which is no UTF-8, a
\* blank line and NUL.
In_BadKey == T_SEND \o <<LF, 200, COLON, 118, LF, LF, NUL>>
\* The peer closes without sending anything.
In_Closed == <<>>

\* What a client may send before a read of the session returns.
Inputs == {In_Connect, In_Send, In_Nope, In_Timeout, In_BadKey, In_Closed}

\* parse_frame on each input, computed once.
ParsedInputs == [s \in Inputs |-> parse_frame(s)]

\* parse_frame(s), looked up when s is one of the inputs.
parse_stream(s) == IF s \in Inputs THEN ParsedInputs[s] ELSE parse_frame(s)

\* What parse_frame leaves in a record of the call.
ReadRecord(r) == [kind |-> r.kind, frame |-> r.frame, err |-> r.err, ioerr |-> r.ioerr]

(***************************************************************************)
(* tcp_listen                                                              *)
(***************************************************************************)
\* An accepted stream: the two channels are created and the session thread is
\* spawned with server_tx and client_rx.
ListenerSpawn(c) ==
    /\ lpc = 0
    /\ c = Cardinality(accepted) + 1
    /\ c \in Conns
    /\ accepted' = accepted \cup {c}
    /\ spc' = [spc EXCEPT ![c] = "handshake"]
    /\ lpc' = c
    /\ UNCHANGED <<reg_chan, clients, dpc, req_chan, resp_chan, rest, at_eof, written,
                   shut, reads, sent, got, recvd>>
    /\ UNCHANGED codecVars

\* tx.send(c): the Client (thread handle, client_tx, server_rx) goes to main.
ListenerSend ==
    /\ lpc # 0
    /\ reg_chan' = Append(reg_chan, lpc)
    /\ lpc' = 0
    /\ UNCHANGED <<accepted, clients, dpc, req_chan, resp_chan, spc, rest, at_eof,
                   written, shut, reads, sent, got, recvd>>
    /\ UNCHANGED codecVars

\* An error in the incoming stream is logged; the accept loop goes on.
ListenerAcceptError ==
    /\ lpc = 0
    /\ UNCHANGED vars

(***************************************************************************)
(* main: the dispatcher loop                                               *)
(***************************************************************************)
\* The registry holding the new client alone instead of growing by it.
DispatcherPollNew_Replace ==
    /\ dpc = 0
    /\ IF reg_chan # <<>>
       THEN /\ clients' = <<Head(reg_chan)>>
            /\ reg_chan' = Tail(reg_chan)
       ELSE UNCHANGED <<clients, reg_chan>>
    /\ dpc' = IF Len(clients') > 0 THEN 1 ELSE 0
    /\ UNCHANGED <<accepted, lpc, req_chan, resp_chan, spc, rest, at_eof, written, shut,
                   reads, sent, got, recvd>>
    /\ UNCHANGED codecVars

\* if let Ok(c) = client_rx.try_recv() { clients.push(c) }: never blocks.
DispatcherPollNew ==
    /\ dpc = 0
    /\ IF reg_chan # <<>>
       THEN /\ clients' = Append(clients, Head(reg_chan))
            /\ reg_chan' = Tail(reg_chan)
       ELSE UNCHANGED <<clients, reg_chan>>
    /\ dpc' = IF Len(clients') > 0 THEN 1 ELSE 0
    /\ UNCHANGED <<accepted, lpc, req_chan, resp_chan, spc, rest, at_eof, written, shut,
                   reads, sent, got, recvd>>
    /\ UNCHANGED codecVars

\* One turn of "for c in &mut clients".  blocking = FALSE is c.rx.try_recv(),
\* which returns at once with or without a request; blocking = TRUE would be
\* c.rx.recv(), which waits for one.  A request is logged and dropped; nothing
\* is sent on c.tx.
PollClient(blocking) ==
    /\ dpc > 0
    /\ LET c == clients[dpc]
       IN  /\ blocking => req_chan[c] # <<>>
           /\ IF req_chan[c] # <<>>
              THEN /\ got' = [got EXCEPT ![c] = Append(@, Head(req_chan[c]))]
                   /\ req_chan' = [req_chan EXCEPT ![c] = Tail(@)]
              ELSE UNCHANGED <<got, req_chan>>
    /\ dpc' = IF dpc < Len(clients) THEN dpc + 1 ELSE 0
    /\ UNCHANGED <<accepted, lpc, reg_chan, clients, resp_chan, spc, rest, at_eof,
                   written, shut, reads, sent, recvd>>
    /\ UNCHANGED codecVars

\* The dispatcher waiting in c.rx.recv() for each client in turn.
DispatcherPollClient_Blocking == PollClient(TRUE)

DispatcherPollClient == PollClient(FALSE)

(***************************************************************************)
(* handle_client                                                           *)
(***************************************************************************)
\* What the client may have sent when a read of connection c returns: nothing
\* more once the session has read end of stream.
InputsFor(c) == IF at_eof[c] THEN {<<>>} ELSE Inputs

\* The bytes parse_frame did not read.
Unread(s, r) == SubSeq(s, r.pos, Len(s))

\* The first frame: parse_frame, then do_connect or the decode error, written to
\* the stream.  A decode error returns; after do_connect the function goes on
\* to the loop whatever the response is.  wrote = FALSE: stream.write returns
\* Err and its unwrap panics.
Handshake(c) ==
    /\ spc[c] = "handshake"
    /\ \E chunk \in InputsFor(c), wrote \in BOOLEAN :
         LET s == rest[c] \o chunk
             request == parse_stream(s)
             response == IF request.kind = "ok"
                         THEN do_connect(request.frame)
                         ELSE with_body("Error", request.err)
         IN  /\ reads' = [reads EXCEPT ![c] = Append(@, ReadRecord(request))]
             /\ rest' = [rest EXCEPT ![c] = Unread(s, request)]
             /\ at_eof' = [at_eof EXCEPT ![c] = @ \/ request.eof]
             /\ IF request.kind = "panic" \/ ~wrote
                THEN /\ spc' = [spc EXCEPT ![c] = "panicked"]
                     /\ UNCHANGED written
                ELSE /\ written' = [written EXCEPT ![c] = Append(@, response)]
                     /\ spc' = [spc EXCEPT ![c] =
                                  IF request.kind = "ok" THEN "loop" ELSE "done"]
    /\ UNCHANGED <<accepted, lpc, reg_chan, clients, dpc, req_chan, resp_chan, shut,
                   sent, got, recvd>>
    /\ UNCHANGED codecVars

\* The end of one turn of the loop: the response is written and, when it is an
\* ERROR, the stream is shut down and the loop left.
WriteResponse(c, response, wrote) ==
    IF ~wrote
    THEN /\ spc' = [spc EXCEPT ![c] = "panicked"]
         /\ UNCHANGED <<written, shut>>
    ELSE /\ written' = [written EXCEPT ![c] = Append(@, response)]
         /\ IF response.command = "Error"
            THEN /\ shut' = [shut EXCEPT ![c] = TRUE]
                 /\ spc' = [spc EXCEPT ![c] = "done"]
            ELSE /\ spc' = [spc EXCEPT ![c] = "loop"]
                 /\ UNCHANGED shut

\* One turn of the loop up to rx.recv(): parse_frame; a decoded frame is sent on
\* tx and the session goes to position after_send; a decode error is answered
\* with an ERROR frame.
ActiveTurn(c, after_send) ==
    /\ spc[c] = "loop"
    /\ \E chunk \in InputsFor(c), wrote \in BOOLEAN :
         LET s == rest[c] \o chunk
             request == parse_stream(s)
         IN  /\ reads' = [reads EXCEPT ![c] = Append(@, ReadRecord(request))]
             /\ rest' = [rest EXCEPT ![c] = Unread(s, request)]
             /\ at_eof' = [at_eof EXCEPT ![c] = @ \/ request.eof]
             /\ CASE request.kind = "ok" ->
                       /\ req_chan' = [req_chan EXCEPT ![c] = Append(@, request.frame)]
                       /\ sent' = [sent EXCEPT ![c] = Append(@, request.frame)]
                       /\ spc' = [spc EXCEPT ![c] = after_send]
                       /\ UNCHANGED <<written, shut>>
                  [] request.kind = "err" ->
                       /\ WriteResponse(c, with_body("Error", request.err), wrote)
                       /\ UNCHANGED <<req_chan, sent>>
                  [] request.kind = "panic" ->
                       /\ spc' = [spc EXCEPT ![c] = "panicked"]
                       /\ UNCHANGED <<req_chan, sent, written, shut>>
    /\ UNCHANGED <<accepted, lpc, reg_chan, clients, dpc, resp_chan, got, recvd>>
    /\ UNCHANGED codecVars

\* The loop going round without waiting for the dispatcher's response.
ActiveStep_NoRecv(c) == ActiveTurn(c, "loop")

\* After tx.send(r) the session blocks in rx.recv().
ActiveStep(c) == ActiveTurn(c, "recv")

\* rx.recv() returns the dispatcher's response, which is written to the stream.
\* No code sends on client_tx (main keeps it in the registry and never uses
\* it), so resp_chan stays empty and this step is never enabled: it is no
\* disjunct of Next.
ActiveRecv(c) ==
    /\ spc[c] = "recv"
    /\ resp_chan[c] # <<>>
    /\ resp_chan' = [resp_chan EXCEPT ![c] = Tail(@)]
    /\ recvd' = [recvd EXCEPT ![c] = Append(@, Head(resp_chan[c]))]
    /\ \E wrote \in BOOLEAN : WriteResponse(c, Head(resp_chan[c]), wrote)
    /\ UNCHANGED <<accepted, lpc, reg_chan, clients, dpc, req_chan, rest, at_eof,
                   reads, sent, got, recvd>>
    /\ UNCHANGED codecVars

(***************************************************************************)
(* The system: listener, dispatcher and one session per connection.        *)
(***************************************************************************)
CodecIdle ==
    /\ cpc = "off"
    /\ cArg = <<>>
    /\ cIn = <<>>
    /\ cOut = <<>>

SysInit ==
    /\ accepted = {}
    /\ lpc = 0
    /\ reg_chan = <<>>
    /\ clients = <<>>
    /\ dpc = 0
    /\ req_chan = [c \in Conns |-> <<>>]
    /\ resp_chan = [c \in Conns |-> <<>>]
    /\ spc = [c \in Conns |-> "none"]
    /\ rest = [c \in Conns |-> <<>>]
    /\ at_eof = [c \in Conns |-> FALSE]
    /\ written = [c \in Conns |-> <<>>]
    /\ shut = [c \in Conns |-> FALSE]
    /\ reads = [c \in Conns |-> <<>>]
    /\ sent = [c \in Conns |-> <<>>]
    /\ got = [c \in Conns |-> <<>>]
    /\ recvd = [c \in Conns |-> <<>>]

Init == SysInit /\ CodecIdle

Listener == (\E c \in Conns : ListenerSpawn(c)) \/ ListenerSend \/ ListenerAcceptError

Dispatcher == DispatcherPollNew \/ DispatcherPollClient

Session(c) == Handshake(c) \/ ActiveStep(c)

Next ==
    \/ \E c \in Conns : ListenerSpawn(c)
    \/ ListenerSend
    \/ ListenerAcceptError
    \/ DispatcherPollNew
    \/ DispatcherPollClient
    \/ \E c \in Conns : Handshake(c)
    \/ \E c \in Conns : ActiveStep(c)

Spec == Init /\ [][Next]_vars

\* The threads are scheduled fairly, and a blocked socket read returns when the
\* client sends, closes, or the read deadline expires.  That a further client
\* connects is up to the environment.
FairSpec ==
    /\ Spec
    /\ WF_vars(ListenerSend)
    /\ WF_vars(Dispatcher)
    /\ \A c \in Conns : WF_vars(Session(c))

(***************************************************************************)
(* The codec and do_connect on their own: the inputs are drawn from bounded *)
(* sets and the functions applied to them.                                 *)
(***************************************************************************)
\* Header pairs of a frame under test.
MaxHeaders == 3
\* Bytes of a header section under test.
MaxSection == 4

\* "1.0"
V_1_0 == <<49, 46, 48>>

HeaderPairs == {<<K_ACCEPT_VERSION, V_1_2>>, <<K_ACCEPT_VERSION, V_1_0>>, <<K_HOST, <<104>>>>}

SeqsUpTo(S, n) == UNION {[1..k -> S] : k \in 0..n}

\* The frames under test: every command, up to MaxHeaders header pairs, an
\* empty body or the body "a".
Frames ==
    [command : StompCommand, header : SeqsUpTo(HeaderPairs, MaxHeaders),
     body : {<<>>, <<97>>}]

\* The bytes of a header section under test: 'k', ':', the escape character,
\* 'r', 'n', 'c', CR and LF.
SectionBytes == {107, COLON, ESCAPE_CHAR, 114, 110, 99, CR, LF}

Sections == SeqsUpTo(SectionBytes, MaxSection)

\* "SEND\n", the section, a blank line, the body "a" and NUL.
SectionStream(section) == T_SEND \o <<LF>> \o section \o <<LF, LF, 97, NUL>>

\* Bytes after the header section of a stream under test.
MaxRest == 3

\* The command lines under test: the 15 tokens, "SEND" and "NOPE" followed by
\* CR, and "NOPE", "send", "SENDX", the byte 200 and the empty line, which are
\* none of the 15.
Tokens ==
    {T_SEND, T_SUBSCRIBE, T_UNSUBSCRIBE, T_BEGIN, T_COMMIT, T_ABORT, T_ACK, T_NACK,
     T_DISCONNECT, T_STOMP, T_CONNECT, T_CONNECTED, T_MESSAGE, T_RECEIPT, T_ERROR,
     T_SEND \o <<CR>>, <<78, 79, 80, 69, CR>>,
     <<78, 79, 80, 69>>, <<115, 101, 110, 100>>, T_SEND \o <<88>>, <<200>>, <<>>}

\* The header lines under test: none, "k:v", "content-length:" with 0, 1 and
\* 3, and "k", which has no colon.
Heads ==
    {<<>>, <<107, COLON, 118, LF>>, <<107, LF>>,
     K_CONTENT_LENGTH \o <<COLON, 48, LF>>, K_CONTENT_LENGTH \o <<COLON, 49, LF>>,
     K_CONTENT_LENGTH \o <<COLON, 51, LF>>}

\* What follows the header section: 'a', the byte 200 (no UTF-8), NUL and a
\* read that fails.
Rests == SeqsUpTo({97, 200, NUL, IoErr}, MaxRest)

\* The stream: the command line, the header lines, a blank line and the rest.
FrameStream(arg) == arg.token \o <<LF>> \o arg.head \o <<LF>> \o arg.rest

\* Frames in one stream.
MaxFrames == 2

\* Well-formed frames on the wire: after no blank line, LF or CR LF, the
\* command SEND or STOMP, no header or "k:v" ended by LF or by CR LF, a blank
\* line, the body "a" (SEND only) or none, and NUL.
WireFrames ==
    {w \in [blank : {<<>>, <<LF>>, <<CR, LF>>},
            token : {T_SEND, T_STOMP},
            head : {<<>>, <<107, COLON, 118, LF>>, <<107, COLON, 118, CR, LF>>},
            body : {<<>>, <<97>>}] :
        w.body # <<>> => w.token = T_SEND}

\* The bytes of one frame on the wire.
WireBytes(w) == w.blank \o w.token \o <<LF>> \o w.head \o <<LF>> \o w.body \o <<NUL>>

\* The stream of the frames from the n-th on.
RECURSIVE WireStream(_, _)
WireStream(ws, n) ==
    IF n > Len(ws) THEN <<>> ELSE WireBytes(ws[n]) \o WireStream(ws, n + 1)

CodecInit ==
    /\ SysInit
    /\ cOut = <<>>
    /\ \/ /\ cpc = "frame"
          /\ cArg \in Frames
          /\ cIn = <<>>
       \/ /\ cpc = "section"
          /\ cArg \in Sections
          /\ cIn = SectionStream(cArg)
       \/ /\ cpc = "stream"
          /\ cArg \in [token : Tokens, head : Heads, rest : Rests]
          /\ cIn = FrameStream(cArg)
       \/ /\ cpc = "command"
          /\ cArg \in StompCommand
          /\ cIn = <<>>
       \/ /\ cpc = "header"
          /\ cArg = <<>>
          /\ cIn = Header_new
       \/ /\ cpc = "multi"
          /\ cArg \in SeqsUpTo(WireFrames, MaxFrames)
          /\ cIn = WireStream(cArg, 1)
       \/ /\ cpc = "token"
          /\ cArg \in Tokens
          /\ cIn = cArg

\* do_connect on the frame.
CodecConnect ==
    /\ cpc = "frame"
    /\ cOut' = do_connect(cArg)
    /\ cpc' = "connected"
    /\ UNCHANGED <<cArg, cIn>>
    /\ UNCHANGED sysVars

\* to_bytes on the frame.
CodecEncode ==
    /\ cpc = "frame"
    /\ cIn' = to_bytes(cArg)
    /\ cpc' = "encoded"
    /\ UNCHANGED <<cArg, cOut>>
    /\ UNCHANGED sysVars

\* parse_frame on the bytes: those of an encoded frame, or a stream under test.
CodecDecode ==
    /\ cpc \in {"encoded", "section", "stream"}
    /\ cOut' = parse_frame(cIn)
    /\ cpc' = CASE cpc = "encoded" -> "roundtrip"
              [] cpc = "section" -> "decoded"
              [] cpc = "stream" -> "parsed"
    /\ UNCHANGED <<cArg, cIn>>
    /\ UNCHANGED sysVars

\* to_string on the command, or on the command from_string gave for a token.
CodecToString ==
    /\ \/ /\ cpc = "command"
          /\ cIn' = Command_to_string(cArg)
          /\ cpc' = "named"
       \/ /\ cpc = "variant"
          /\ cOut # None
          /\ cIn' = Command_to_string(cOut[1])
          /\ cpc' = "retoken"
    /\ UNCHANGED <<cArg, cOut>>
    /\ UNCHANGED sysVars

\* from_string on the token, or on the token to_string gave for a command.
CodecFromString ==
    /\ cpc \in {"token", "named"}
    /\ cOut' = from_string(cIn)
    /\ cpc' = IF cpc = "token" THEN "variant" ELSE "renamed"
    /\ UNCHANGED <<cArg, cIn>>
    /\ UNCHANGED sysVars

\* Calls of Header::set on one store.
MaxSets == 3

\* The keys "k" and "h" and the values "v" and "w".
SetKeys == {<<107>>, <<104>>}

SetValues == {<<118>>, <<119>>}

\* header.set(key, value): cIn is the store, cArg the calls made so far.
CodecHeaderSet ==
    /\ cpc \in {"header", "looked"}
    /\ Len(cArg) < MaxSets
    /\ \E key \in SetKeys, value \in SetValues :
         /\ cIn' = Header_set(cIn, key, value)
         /\ cArg' = Append(cArg, <<key, value>>)
    /\ cpc' = "header"
    /\ cOut' = <<>>
    /\ UNCHANGED sysVars

\* header.get(key) and header.contains_key(key).
CodecHeaderGet ==
    /\ cpc \in {"header", "looked"}
    /\ \E key \in SetKeys :
         cOut' = [key |-> key, get |-> Header_get(cIn, key),
                  has |-> contains_key(cIn, key)]
    /\ cpc' = "looked"
    /\ UNCHANGED <<cArg, cIn>>
    /\ UNCHANGED sysVars

\* The next call of parse_frame on the stream: cIn is what is left of it, cOut
\* the results so far.
CodecDecodeNext ==
    /\ cpc = "multi"
    /\ Len(cOut) < Len(cArg)
    /\ LET r == parse_frame(cIn)
       IN  /\ cOut' = Append(cOut, r)
           /\ cIn' = Unread(cIn, r)
    /\ UNCHANGED <<cpc, cArg>>
    /\ UNCHANGED sysVars

CodecNext ==
    \/ CodecConnect \/ CodecEncode \/ CodecDecode
    \/ CodecToString \/ CodecFromString
    \/ CodecHeaderSet \/ CodecHeaderGet
    \/ CodecDecodeNext

CodecSpec == CodecInit /\ [][CodecNext]_vars

(***************************************************************************)
(* Properties of the system.                                               *)
(***************************************************************************)
Registered(c) == \E i \in 1..Len(clients) : clients[i] = c

\* An ERROR frame has been written to the client of c.
ErrorWritten(c) == \E i \in 1..Len(written[c]) : written[c][i].command = "Error"

\* The session of c has ended: handle_client returned or its thread panicked.
Ended(c) == spc[c] \in {"done", "panicked"}

\* C1: once an ERROR frame has been written to a client, the session has ended
\* its work on the connection: from then on it calls parse_frame no more,
\* writes no further frame and sends nothing on tx.
C1_ErrorIsTerminal ==
    [][\A c \in Conns :
         ErrorWritten(c) =>
            /\ reads'[c] = reads[c]
            /\ written'[c] = written[c]
            /\ sent'[c] = sent[c]]_vars

\* C2: a session that has called parse_frame a second time, or has sent a
\* frame on tx (a frame of it is or was in the dispatcher's request channel),
\* decoded its first frame and answered it with CONNECTED.
C2_ActiveOnlyAfterConnected ==
    \A c \in Conns :
        (Len(reads[c]) >= 2 \/ sent[c] # <<>> \/ req_chan[c] # <<>>) =>
            /\ reads[c][1].kind = "ok"
            /\ written[c] # <<>>
            /\ written[c][1].command = "Connected"

\* C3: a session blocked in rx.recv() after sending a frame on tx resumes and
\* writes the dispatcher's response: the response is received and written.
C3_EveryRequestAnswered ==
    \A c \in Conns :
        (spc[c] = "recv") ~> (Len(recvd[c]) = Len(sent[c]) /\ spc[c] # "recv")

\* C4: a connection has at most one request outstanding: the session has sent
\* at most one frame more than it has received responses, its request channel
\* holds at most one frame, and the dispatcher takes the frames of a connection
\* in the order the session sent them.
C4_OneOutstanding ==
    \A c \in Conns :
        /\ Len(sent[c]) <= Len(recvd[c]) + 1
        /\ Len(req_chan[c]) <= 1
        /\ got[c] \o req_chan[c] = sent[c]

\* C4's case: two sessions are connected at once, each with a request sent; the
\* dispatcher has taken the one and not yet the other.
C4_Witness ==
    \E c, d \in Conns :
        /\ c # d
        /\ spc[c] = "recv" /\ got[c] = sent[c] /\ Len(sent[c]) = 1
        /\ spc[d] = "recv" /\ Len(req_chan[d]) = 1

\* C5: the dispatcher loop starves no connection: every accepted connection is
\* eventually registered, and a request in a connection's channel is
\* eventually taken by the dispatcher, whatever the other sessions do.
C5_NoStarvation ==
    \A c \in Conns :
        /\ (c \in accepted) ~> Registered(c)
        /\ (req_chan[c] # <<>>) ~> (req_chan[c] = <<>>)

\* C5's case: the dispatcher has taken a request of one registered connection
\* while the connection polled before it is registered and its session has
\* ended.
C5_Witness ==
    \E c, d \in Conns :
        /\ c # d
        /\ Registered(c) /\ Registered(d)
        /\ Ended(c) /\ clients[1] = c
        /\ got[d] # <<>>

\* The ERROR frame that answers the decode error err.
DecodeErrorFrame(err) ==
    [command |-> "Error",
     header |-> <<<<K_CONTENT_LENGTH, usize_to_string(Len(err))>>>>,
     body |-> err]

\* The calls of parse_frame by c that are to be answered with a write: the
\* first one and every one that failed to decode (a decoded request of the loop
\* is sent to the dispatcher, whose answer never comes).
Answered(c) ==
    {i \in 1..Len(reads[c]) : i = 1 \/ reads[c][i].kind \in {"err", "panic"}}

\* The calls of parse_frame by c, after the first, that returned a frame.
Forwardable(c) == {i \in 2..Len(reads[c]) : reads[c][i].kind = "ok"}

\* The calls of parse_frame by c that did not decode a frame: those that
\* returned Err and those that panicked.
DecodeFailures(c) == {i \in 1..Len(reads[c]) : reads[c][i].kind \in {"err", "panic"}}

\* C6: every decode failure is the last call of parse_frame of its session,
\* the session has ended, the failed frame was not sent to the dispatcher, and
\* exactly one ERROR frame, with the error message as body and its length as
\* content-length, was written for it.
C6_DecodeErrorAnswered ==
    \A c \in Conns : \A i \in DecodeFailures(c) :
        /\ i = Len(reads[c])
        /\ Ended(c)
        /\ Len(sent[c]) = Cardinality(Forwardable(c))
        /\ Len(written[c]) = Cardinality(Answered(c))
        /\ written[c][Len(written[c])].command = "Error"
        /\ reads[c][i].kind = "err" =>
              written[c][Len(written[c])] = DecodeErrorFrame(reads[c][i].err)

\* C6's case: after a handshake the session decodes a frame whose header key
\* is no UTF-8; parse_frame panics, and the session ends with nothing written
\* for the frame.
C6_Witness ==
    \E c \in Conns :
        /\ Len(reads[c]) = 2
        /\ reads[c][2].kind = "panic"
        /\ spc[c] = "panicked"
        /\ Len(written[c]) = 1

\* C7: a call of parse_frame during which a read of the socket returned an
\* error does not return a frame, so nothing is sent to the dispatcher for it,
\* and it is the last call of parse_frame of its session.
C7_TransportErrorEndsSession ==
    \A c \in Conns : \A i \in 1..Len(reads[c]) :
        reads[c][i].ioerr # {} =>
            /\ reads[c][i].kind # "ok"
            /\ i = Len(reads[c])
            /\ Len(sent[c]) = Cardinality(Forwardable(c) \ {i})

(***************************************************************************)
(* Properties of do_connect and the codec.                                 *)
(***************************************************************************)
HasKey(header, key) == \E i \in 1..Len(header) : header[i][1] = key

\* The value of the earliest pair with the key.
FirstValue(header, key) ==
    header[CHOOSE i \in 1..Len(header) :
             header[i][1] = key /\ \A j \in 1..(i - 1) : header[j][1] # key][2]

IsError(frame, message) == frame.command = "Error" /\ frame.body = message

\* C8: do_connect answers with the error of the first check that fails, in the
\* order command, accept-version present, host present, first accept-version
\* equal to "1.2"; when none fails, with CONNECTED, the headers version=1.2 and
\* server=SERVER_STR in that order, and an empty body.
C8_DoConnectDecision ==
    cpc = "connected" =>
        LET h == cArg.header
        IN  CASE cArg.command # "Stomp" -> IsError(cOut, M_EXPECTED_STOMP)
              [] cArg.command = "Stomp" /\ ~HasKey(h, K_ACCEPT_VERSION) ->
                    IsError(cOut, M_EXPECTED_VERSION)
              [] cArg.command = "Stomp" /\ HasKey(h, K_ACCEPT_VERSION)
                    /\ ~HasKey(h, K_HOST) ->
                    IsError(cOut, M_EXPECTED_HOST)
              [] cArg.command = "Stomp" /\ HasKey(h, K_ACCEPT_VERSION)
                    /\ HasKey(h, K_HOST) /\ FirstValue(h, K_ACCEPT_VERSION) # V_1_2 ->
                    IsError(cOut, M_BAD_VERSION)
              [] OTHER ->
                    cOut = [command |-> "Connected",
                            header |-> <<<<K_VERSION, V_1_2>>, <<K_SERVER, SERVER_STR>>>>,
                            body |-> <<>>]

\* C8's case: a STOMP frame with neither accept-version nor host is answered
\* with the accept-version error, the earlier of the two.
C8_Witness ==
    /\ cpc = "connected"
    /\ cArg.command = "Stomp"
    /\ ~HasKey(cArg.header, K_ACCEPT_VERSION)
    /\ ~HasKey(cArg.header, K_HOST)
    /\ cOut.body = M_EXPECTED_VERSION

Bytes(frame) ==
    {frame.body[i] : i \in 1..Len(frame.body)}
        \cup UNION {{frame.header[i][1][j] : j \in 1..Len(frame.header[i][1])}
                        \cup {frame.header[i][2][j] : j \in 1..Len(frame.header[i][2])} :
                    i \in 1..Len(frame.header)}

\* C9: a frame that may have its body and holds no escape character is
\* what parse_frame returns for its to_bytes.
C9_RoundTrip ==
    (/\ cpc = "roundtrip"
     /\ BodyAllowed(cArg.command, cArg.body)
     /\ ESCAPE_CHAR \notin Bytes(cArg)) =>
            /\ cOut.kind = "ok"
            /\ cOut.frame.command = cArg.command
            /\ cOut.frame.header = cArg.header
            /\ cOut.frame.body = cArg.body

\* The escape character is followed by one of r, n, c and the escape character
\* wherever it occurs in x, read from the left.
RECURSIVE LegalEscapes(_)
LegalEscapes(x) ==
    IF x = <<>> THEN TRUE
    ELSE IF Head(x) = ESCAPE_CHAR
    THEN /\ Len(x) >= 2
         /\ x[2] \in {114, 110, 99, 92}
         /\ LegalEscapes(Tail(Tail(x)))
    ELSE LegalEscapes(Tail(x))

\* x with each escape sequence replaced by the byte it stands for.
RECURSIVE Unescaped(_)
Unescaped(x) ==
    IF x = <<>> THEN <<>>
    ELSE IF Head(x) = ESCAPE_CHAR /\ Len(x) >= 2
    THEN <<CASE x[2] = 114 -> 13 [] x[2] = 110 -> 10 [] x[2] = 99 -> 58
             [] OTHER -> 92>> \o Unescaped(Tail(Tail(x)))
    ELSE <<Head(x)>> \o Unescaped(Tail(x))

\* The section is one header line key ":" value, with no CR or LF of its own,
\* a single colon, a key that is not empty and only legal escape sequences.
EscapedLine(section, p) ==
    /\ p \in 2..Len(section)
    /\ section[p] = COLON
    /\ \A i \in 1..Len(section) : section[i] \notin {CR, LF} /\ (section[i] = COLON => i = p)
    /\ LegalEscapes(SubSeq(section, 1, p - 1))
    /\ LegalEscapes(SubSeq(section, p + 1, Len(section)))

\* C10: in a header line each escape sequence \r, \n, \c, \\ is decoded to CR,
\* LF, ':' and the escape character, appended to the key or the value it is in.
C10_EscapesDecoded ==
    cpc = "decoded" =>
        \A p \in 1..Len(cArg) :
            EscapedLine(cArg, p) =>
                /\ cOut.kind = "ok"
                /\ cOut.frame.header =
                     <<<<Unescaped(SubSeq(cArg, 1, p - 1)),
                         Unescaped(SubSeq(cArg, p + 1, Len(cArg)))>>>>

(***************************************************************************)
(* Properties of the header phase of parse_frame.                          *)
(***************************************************************************)
\* The bytes r, n, c and the escape character: the keys of the unescape table.
EscapeKeys == {114, 110, 99, ESCAPE_CHAR}

\* The position of the first escape character of the section, 0 if none.
FirstEscape(section) ==
    IF \E i \in 1..Len(section) : section[i] = ESCAPE_CHAR
    THEN CHOOSE i \in 1..Len(section) :
            section[i] = ESCAPE_CHAR /\ \A j \in 1..(i - 1) : section[j] # ESCAPE_CHAR
    ELSE 0

\* The first escape character of the section is in a header line that the
\* decoder reaches (no LF comes before it: the section starts right after the
\* command line) and is followed by the byte x.
EscapeFollowedBy(section, x) ==
    LET e == FirstEscape(section)
    IN  /\ e > 0
        /\ e < Len(section)
        /\ section[e + 1] = x
        /\ \A j \in 1..(e - 1) : section[j] # LF

\* C11: an escape character followed by a byte that is none of r, n, c and the
\* escape character makes parse_frame fail with "Invalid escape sequence" as
\* soon as that byte is read, whatever the byte is, ':' LF and CR included.
C11_InvalidEscapeRejected ==
    cpc = "decoded" =>
        \A x \in SectionBytes \ EscapeKeys :
            EscapeFollowedBy(cArg, x) =>
                /\ cOut.kind = "err"
                /\ cOut.err = E_ESCAPE
                /\ cOut.pos = Len(T_SEND) + 1 + FirstEscape(cArg) + 2

\* C11's case: the header line "k:\:" is decoded without an error.
C11_Witness ==
    /\ cpc = "decoded"
    /\ cArg = <<107, COLON, ESCAPE_CHAR, COLON>>
    /\ cOut.kind = "ok"
    /\ cOut.frame.header = <<<<<<107>>, <<>>>>>>

\* The bytes of x, as a set.
Range(x) == {x[i] : i \in 1..Len(x)}

\* A header line "key:value" that the decoder stores or skips and goes on: no
\* LF and no escape character in it, a colon, and a byte other than CR and ':'.
PairLine(line) ==
    /\ LF \notin Range(line)
    /\ ESCAPE_CHAR \notin Range(line)
    /\ COLON \in Range(line)
    /\ Range(line) \ {CR, COLON} # {}

\* A line of the section starts at position i and the decoder gets to it: it
\* is the first line, or the lines before it are lines with a colon.
RECURSIVE LineReached(_, _)
LineReached(section, i) ==
    \/ i = 1
    \/ /\ i > 2
       /\ section[i - 1] = LF
       /\ \E a \in 1..(i - 2) :
            LineReached(section, a) /\ PairLine(SubSeq(section, a, i - 2))

\* Positions i..j of the section are a whole line (ended by the LF after j, or
\* by the LF that follows the section) that is not blank and has no colon.
NoColonLine(section, i, j) ==
    /\ i <= j
    /\ j = Len(section) \/ section[j + 1] = LF
    /\ Range(SubSeq(section, i, j)) \cap {LF, COLON} = {}
    /\ Range(SubSeq(section, i, j)) # {CR}

\* C12: a header line that is not blank and has no ':' makes parse_frame fail
\* with "Failed to parse header."; the line is not skipped, not stored and not
\* taken for the end of the header section.
C12_LineWithoutColonRejected ==
    cpc = "decoded" =>
        \A i, j \in 1..Len(cArg) :
            (LineReached(cArg, i) /\ NoColonLine(cArg, i, j)) =>
                /\ cOut.kind = "err"
                /\ cOut.err = E_PARSE_HEADER

\* C12's case: the header line that holds the escape character alone is taken
\* for the blank line, and the frame is decoded with no header.
C12_Witness ==
    /\ cpc = "decoded"
    /\ cArg = <<ESCAPE_CHAR>>
    /\ cOut.kind = "ok"
    /\ cOut.frame.header = <<>>
    /\ cOut.frame.body = <<LF, 97>>

(***************************************************************************)
(* Properties of the command line and the body of parse_frame.             *)
(***************************************************************************)
\* The variant a token of the table stands for.
VariantOf(token) ==
    CASE token = T_SEND -> "Send" [] token = T_SUBSCRIBE -> "Subscribe"
      [] token = T_UNSUBSCRIBE -> "Unsubscribe" [] token = T_BEGIN -> "Begin"
      [] token = T_COMMIT -> "Commit" [] token = T_ABORT -> "Abort"
      [] token = T_ACK -> "Ack" [] token = T_NACK -> "Nack"
      [] token = T_DISCONNECT -> "Disconnect" [] token = T_STOMP -> "Stomp"
      [] token = T_CONNECT -> "Stomp" [] token = T_CONNECTED -> "Connected"
      [] token = T_MESSAGE -> "Message" [] token = T_RECEIPT -> "Receipt"
      [] token = T_ERROR -> "Error"

\* The 15 recognized tokens.
Recognized ==
    {T_SEND, T_SUBSCRIBE, T_UNSUBSCRIBE, T_BEGIN, T_COMMIT, T_ABORT, T_ACK, T_NACK,
     T_DISCONNECT, T_STOMP, T_CONNECT, T_CONNECTED, T_MESSAGE, T_RECEIPT, T_ERROR}

\* What ends a body: NUL, and a read that fails, which the decoder takes like
\* the end of the stream.
BodyEnds == {NUL, IoErr}

\* The bytes of x before the first NUL or failed read, all of x when it has
\* none.
UpToNul(x) ==
    IF Range(x) \cap BodyEnds # {}
    THEN SubSeq(x, 1, (CHOOSE i \in 1..Len(x) :
                            x[i] \in BodyEnds /\ \A j \in 1..(i - 1) : x[j] \notin BodyEnds) - 1)
    ELSE x

\* The position of the first byte of the stream s that is neither LF nor CR,
\* Len(s) + 1 when there is none: where the command line starts.
TokenStart(s) ==
    IF \E i \in 1..Len(s) : s[i] \notin {LF, CR}
    THEN CHOOSE i \in 1..Len(s) :
            s[i] \notin {LF, CR} /\ \A j \in 1..(i - 1) : s[j] \in {LF, CR}
    ELSE Len(s) + 1

\* The position of the LF, or of the read that fails, that ends the command
\* line, Len(s) + 1 when the stream ends before.
TokenEnd(s) ==
    IF \E i \in TokenStart(s)..Len(s) : s[i] \in {LF, IoErr}
    THEN CHOOSE i \in TokenStart(s)..Len(s) :
            s[i] \in {LF, IoErr} /\ \A j \in TokenStart(s)..(i - 1) : s[j] \notin {LF, IoErr}
    ELSE Len(s) + 1

\* The token of the command line: its bytes other than CR.
TokenOf(s) == SelectSeq(SubSeq(s, TokenStart(s), TokenEnd(s) - 1), LAMBDA b : b # CR)

\* The command line and the header lines of the stream decode: the token is
\* one of the 15 and every header line has a colon.
HeadDecodes(arg) == TokenOf(FrameStream(arg)) \in Recognized /\ arg.head # <<107, LF>>

\* C13: parse_frame fails with "This type of frame may not have a body."
\* exactly when command and headers decoded, the body is UTF-8 and not empty,
\* and the command is none of SEND, MESSAGE, ERROR; an empty body is accepted
\* with every command, and any UTF-8 body with SEND, MESSAGE and ERROR.
C13_BodyOnlyWhereAllowed ==
    cpc = "parsed" =>
        LET body == UpToNul(cArg.rest)
            refused == cOut.kind = "err" /\ cOut.err = E_NO_BODY
        IN  /\ refused <=>
                /\ HeadDecodes(cArg)
                /\ 200 \notin Range(body)
                /\ body # <<>>
                /\ VariantOf(TokenOf(cIn)) \notin {"Send", "Message", "Error"}
            /\ (HeadDecodes(cArg) /\ body = <<>>) => cOut.kind = "ok"
            /\ (/\ HeadDecodes(cArg)
                /\ 200 \notin Range(body)
                /\ VariantOf(TokenOf(cIn)) \in {"Send", "Message", "Error"}) =>
                    cOut.kind = "ok" /\ cOut.frame.body = body

\* C13's case: "SUBSCRIBE\n\na\0" is refused for its body, after command and
\* header decoded.
C13_Witness ==
    /\ cpc = "parsed"
    /\ cArg.token = T_SUBSCRIBE
    /\ cArg.head = <<>>
    /\ cArg.rest = <<97, NUL>>
    /\ cOut.kind = "err"
    /\ cOut.err = E_NO_BODY

\* The smaller of two numbers.
Min(a, b) == IF a <= b THEN a ELSE b

\* C14: a command line whose token is none of the 15 tokens, the empty token of
\* a stream that ends and a token that is no UTF-8 included, makes parse_frame
\* fail with "Invalid command", and nothing after the command line is read.
C14_UnknownCommandRejected ==
    cpc = "parsed" =>
        (TokenOf(cIn) \notin Recognized =>
            /\ cOut.kind = "err"
            /\ cOut.err = E_INVALID_COMMAND
            /\ cOut.pos = Min(TokenEnd(cIn), Len(cIn)) + 1)

\* C14's case: "send\nk:v\n\na\0" fails with "Invalid command" and the stream
\* is left at the header line.
C14_Witness ==
    /\ cpc = "parsed"
    /\ cArg.token = <<115, 101, 110, 100>>
    /\ cArg.head = <<107, COLON, 118, LF>>
    /\ cOut.kind = "err"
    /\ cOut.err = E_INVALID_COMMAND
    /\ cOut.pos = 6

\* The bytes of x that the body phase reads: those before the first NUL or
\* failed read and that one, all of x when it has none.
BodyBytesRead(x) == IF Range(x) \cap BodyEnds # {} THEN Len(UpToNul(x)) + 1 ELSE Len(x)

\* C15: the body phase reads the bytes after the header section up to and
\* with the first NUL, or up to the end of the stream (a read that fails ends
\* the stream for this call); the bytes before are the body of the frame
\* returned; a content-length header, whatever its value, changes neither: the
\* result is that of the stream without the header.
C15_BodyEndsAtNul ==
    cpc = "parsed" =>
        (HeadDecodes(cArg) =>
            LET plain == parse_frame(FrameStream([cArg EXCEPT !.head = <<>>]))
            IN  /\ cOut.pos = Len(cIn) - Len(cArg.rest) + BodyBytesRead(cArg.rest) + 1
                /\ cOut.kind = "ok" => cOut.frame.body = UpToNul(cArg.rest)
                /\ cOut.kind = plain.kind
                /\ cOut.err = plain.err
                /\ cOut.frame.body = plain.frame.body
                /\ Len(cIn) - cOut.pos = Len(FrameStream([cArg EXCEPT !.head = <<>>])) - plain.pos)

\* C15's case: "SEND\ncontent-length:3\n\na\0a" gives the body "a" and leaves
\* the byte after the NUL unread.
C15_Witness ==
    /\ cpc = "parsed"
    /\ cArg.token = T_SEND
    /\ cArg.head = K_CONTENT_LENGTH \o <<COLON, 51, LF>>
    /\ cArg.rest = <<97, NUL, 97>>
    /\ cOut.kind = "ok"
    /\ cOut.frame.body = <<97>>
    /\ cOut.pos = Len(cIn)

(***************************************************************************)
(* Properties of the command table and of Header.                          *)
(***************************************************************************)
\* C16: from_string gives back the variant of the token to_string gave for
\* it; to_string gives back every recognized token but CONNECT; CONNECT is
\* decoded to Stomp, the variant of STOMP, and to_string never gives CONNECT.
C16_CommandTable ==
    /\ cpc = "renamed" => cOut = Some(cArg)
    /\ (cpc = "retoken" /\ cArg # T_CONNECT) => cIn = cArg
    /\ (cpc = "variant" /\ cArg \in Recognized) => cOut # None
    /\ (cpc = "variant" /\ cArg \in {T_CONNECT, T_STOMP}) => cOut = Some("Stomp")
    /\ cpc \in {"named", "retoken"} => cIn # T_CONNECT

\* C16's case: CONNECT, decoded and encoded again, has become STOMP.
C16_Witness ==
    /\ cpc = "retoken"
    /\ cArg = T_CONNECT
    /\ cOut = Some("Stomp")
    /\ cIn = T_STOMP

\* C17: the store is the sequence of the pairs set, in the order of the
\* calls, duplicates kept; get gives the value of the earliest pair with the
\* key, None when there is none; contains_key is true exactly when get gives
\* a value.
C17_HeaderStore ==
    /\ cpc \in {"header", "looked"} => cIn = cArg
    /\ cpc = "looked" =>
          /\ cOut.get = IF HasKey(cIn, cOut.key)
                        THEN Some(FirstValue(cIn, cOut.key))
                        ELSE None
          /\ cOut.has <=> cOut.get # None

\* C17's case: "k" was set to "v" and then to "w"; both pairs are in the store
\* and get gives "v".
C17_Witness ==
    /\ cpc = "looked"
    /\ cIn = <<<<<<107>>, <<118>>>>, <<<<107>>, <<119>>>>>>
    /\ cOut.key = <<107>>
    /\ cOut.get = Some(<<118>>)
    /\ cOut.has

\* The position in the stream of the LF at which the header section of a
\* decoded frame ended: the one before the body, which the NUL at the end of
\* the stream closes.
HeaderEnd(s, frame) == Len(s) - Len(frame.body) - 1

\* The line of the stream s that the LF at position e ends is blank: only CR
\* stands between the LF before it and e.
BlankLineAt(s, e) ==
    /\ e \in 2..Len(s)
    /\ s[e] = LF
    /\ \E j \in 1..(e - 1) :
         /\ s[j] = LF
         /\ \A m \in (j + 1)..(e - 1) : s[m] = CR

\* C18: the header section of a decoded frame ended at a blank line: an LF
\* with nothing but CR between it and the LF before; a line that holds any
\* other byte, a lone ':' or escape character too, does not end the section.
C18_HeaderEndsAtBlankLine ==
    (cpc = "decoded" /\ cOut.kind = "ok") =>
        BlankLineAt(cIn, HeaderEnd(cIn, cOut.frame))

\* C18's case: the header line ":" ends the header section of
\* "SEND\n:\n\na\0", whose body becomes "\na".
C18_Witness ==
    /\ cpc = "decoded"
    /\ cArg = <<COLON>>
    /\ cOut.kind = "ok"
    /\ cOut.frame.header = <<>>
    /\ cOut.frame.body = <<LF, 97>>

(***************************************************************************)
(* Successive frames of one stream.                                        *)
(***************************************************************************)
\* The frame that the bytes of w stand for.
WireFrame(w) ==
    [command |-> IF w.token = T_SEND THEN "Send" ELSE "Stomp",
     header |-> IF w.head = <<>> THEN <<>> ELSE <<<<<<107>>, <<118>>>>>>,
     body |-> w.body]

\* C19: each call of parse_frame on a stream of well-formed frames, with or
\* without blank lines before them, returns the next frame and leaves the
\* stream right after that frame's NUL.
C19_FrameBoundaries ==
    cpc = "multi" =>
        /\ \A n \in 1..Len(cOut) :
              /\ cOut[n].kind = "ok"
              /\ cOut[n].frame = WireFrame(cArg[n])
        /\ cIn = WireStream(cArg, Len(cOut) + 1)

\* C19's case: two frames, the second after a CR LF, both decoded and nothing
\* left of the stream.
C19_Witness ==
    /\ cpc = "multi"
    /\ Len(cArg) = 2
    /\ Len(cOut) = 2
    /\ cArg[2].blank = <<CR, LF>>
    /\ cArg[1].body = <<97>>
    /\ cOut[2].kind = "ok"
    /\ cIn = <<>>

(***************************************************************************)
(* The registry of main.                                                   *)
(***************************************************************************)
\* How often c occurs in the sequence x.
Occurrences(x, c) == Cardinality({i \in 1..Len(x) : x[i] = c})

\* The Client values made for c: in the registry, on their way to it in the
\* channel, or in the hands of tcp_listen.
ClientsOf(c) ==
    Occurrences(clients, c) + Occurrences(reg_chan, c) + (IF lpc = c THEN 1 ELSE 0)

\* C20: for every accepted connection one session thread was spawned and one
\* Client was made, which is in the registry at most once and whose channels
\* are those of that session; a connection not accepted has neither; and no
\* step removes or replaces an entry of the registry: the registry before
\* the step is the beginning of the registry after it.
C20_RegistryOnlyGrows ==
    /\ [](\A c \in Conns :
            /\ c \in accepted <=> spc[c] # "none"
            /\ ClientsOf(c) = IF c \in accepted THEN 1 ELSE 0
            /\ Len(got[c]) + Len(req_chan[c]) = Len(sent[c]))
    /\ [][/\ Len(clients') >= Len(clients)
          /\ SubSeq(clients', 1, Len(clients)) = clients]_vars

\* C20's case: two connections are registered and the session of the first
\* one has ended.
C20_Witness ==
    /\ Len(clients) = 2
    /\ Ended(clients[1])
    /\ spc[clients[2]] = "recv"

====
